---------------------------- MODULE Spec2Model ----------------------------
(***************************************************************************)
(* State-machine model of assets/paypal-fee-handler.js: the PayPal fee     *)
(* line item kept in a Shopify cart by a checkbox, a debounced recalc      *)
(* timer, the cart:updated listeners, the page-init pass, the add-to-cart  *)
(* interception and the removal-confirmation modal.                        *)
(*                                                                         *)
(* Every `await fetch(...)` of the script is a suspension point.  A        *)
(* pipeline (an async function in flight) is a record of `procs` whose pc  *)
(* names the fetch it is waiting for; one step of a pipeline is "the store *)
(* serves the call and the continuation runs up to the next fetch".        *)
(* window.location.reload() is modelled as taking effect at once: it       *)
(* discards every pipeline and timer of the page and runs the script's     *)
(* initialisation again.                                                   *)
(***************************************************************************)
EXTENDS Integers, Sequences, FiniteSets, Bags, TLC

(***************************************************************************)
(* Bounds of the model.                                                    *)
(***************************************************************************)
UnitPrice    == 1000   \* final_line_price of one unit of the ordinary product
MaxQty       == 3      \* largest quantity of the ordinary line item
MaxProcs     == 4      \* pipelines in flight at once
MaxTimers    == 2      \* pool of timer ids handed out by setTimeout
MaxListeners == 3      \* copies of the quantity listeners told apart
MaxFeeLines  == 2      \* fee lines a store that never merges may hold
MaxFeeQty    == 110    \* largest quantity of one fee line
MaxBusy      == 1      \* pipelines in flight while a quantity control is used

(***************************************************************************)
(* Program constants.                                                      *)
(***************************************************************************)
FeeRateNum      == 35     \* CONFIG.FEE_PERCENTAGE = 0.035 = 35 / 1000
FeeRateDen      == 1000
DoublePrecision == 53     \* significand bits of a JavaScript number
LimbBits        == 14     \* bits of one limb of the arithmetic below
FractionDigits  == 5      \* limbs of 0.035 computed before rounding
InitCalls       == 2      \* init() runs at line 639 and again in initializeAll

FEE  == "PAYPAL-FEE-3-5"  \* CONFIG.PAYPAL_FEE_SKU
ITEM == "ITEM"            \* sku of the ordinary product

(***************************************************************************)
(* Utils.calculateFee: Math.ceil(subtotalCents * 0.035) in IEEE-754 double *)
(* arithmetic.  0.035 is the double nearest to 35/1000; the product is     *)
(* rounded to 53 significant bits (round to nearest, ties to even) and     *)
(* then Math.ceil is taken.  A number is a sequence of limbs of LimbBits   *)
(* bits, least significant first.                                          *)
(***************************************************************************)
Limb == 2^LimbBits

\* the element of a one-element set
Only(S) == CHOOSE y \in S : TRUE

\* the first n base-Limb digits of the fraction r / den, least significant
\* first
RECURSIVE FractionLimbs(_, _, _)
FractionLimbs(r, den, n) ==
  IF n = 0 THEN <<>>
  ELSE Only({FractionLimbs(t % den, den, n - 1) \o <<t \div den>> :
               t \in {r * Limb}})

\* what is left of r / den below its first n digits
RECURSIVE FractionRemainder(_, _, _)
FractionRemainder(r, den, n) ==
  IF n = 0 THEN r
  ELSE Only({FractionRemainder(t, den, n - 1) : t \in {(r * Limb) % den}})

LimbAt(x, j) == IF j \in 1..Len(x) THEN x[j] ELSE 0

\* bit i (from 0) of x
Bit(x, i) == (LimbAt(x, i \div LimbBits + 1) \div 2^(i % LimbBits)) % 2

\* number of significant bits of x
BitLen(x) ==
  Only({IF set = {} THEN 0 ELSE 1 + CHOOSE i \in set : \A j \in set : j <= i :
          set \in {{i \in 0..(Len(x) * LimbBits - 1) : Bit(x, i) = 1}}})

\* floor(x / 2^d)
ShiftRight(x, d) ==
  Only({[j \in 1..(Len(x) - a) |->
           LimbAt(x, j + a) \div 2^(d % LimbBits)
             + (LimbAt(x, j + a + 1) % 2^(d % LimbBits))
                 * 2^(LimbBits - (d % LimbBits))] : a \in {d \div LimbBits}})

\* x + 1, from limb i on
RECURSIVE Increment(_, _)
Increment(x, i) ==
  IF i > Len(x) THEN x \o <<1>>
  ELSE IF x[i] + 1 < Limb THEN [x EXCEPT ![i] = @ + 1]
  ELSE Increment([x EXCEPT ![i] = 0], i + 1)

\* x * s + carry * Limb^(i-1) for a small s, from limb i on
RECURSIVE MulSmall(_, _, _, _)
MulSmall(x, s, i, carry) ==
  IF i > Len(x)
  THEN (IF carry = 0 THEN <<>> ELSE <<carry % Limb, carry \div Limb>>)
  ELSE Only({<<t % Limb>> \o MulSmall(x, s, i + 1, t \div Limb) :
               t \in {x[i] * s + carry}})

\* x (and a sticky flag for what lies below it) rounded to DoublePrecision
\* significant bits, to nearest, ties to even: mant * 2^shift
RoundToDouble(x, sticky0) ==
  Only({IF d <= 0 THEN [mant |-> x, shift |-> 0]
        ELSE Only({[mant  |-> IF /\ Bit(x, d - 1) = 1
                                 /\ \/ sticky0
                                    \/ \E i \in 0..(d - 2) : Bit(x, i) = 1
                                    \/ Bit(kept, 0) = 1
                              THEN Increment(kept, 1) ELSE kept,
                    shift |-> d] : kept \in {ShiftRight(x, d)}}) :
          d \in {BitLen(x) - DoublePrecision}})

\* the literal 0.035 as a double: mant * 2^(-scale)
FeeRateDouble ==
  Only({[mant |-> r.mant, scale |-> FractionDigits * LimbBits - r.shift] :
          r \in {RoundToDouble(x, rem # 0) :
                   x \in {FractionLimbs(FeeRateNum, FeeRateDen, FractionDigits)},
                   rem \in {FractionRemainder(FeeRateNum, FeeRateDen,
                                              FractionDigits)}}})

\* Math.ceil of mant * 2^(-e)
MathCeil(mant, e) ==
  Only({LimbAt(int, 1) + Limb * LimbAt(int, 2)
          + (IF \E i \in 0..(e - 1) : Bit(mant, i) = 1 THEN 1 ELSE 0) :
          int \in {ShiftRight(mant, e)}})

\* Math.ceil(s * 0.035)
MathCeilTimesRate(s) ==
  Only({MathCeil(r.mant, rate.scale - r.shift) :
          rate \in {FeeRateDouble},
          r \in {RoundToDouble(p, FALSE) :
                   p \in {MulSmall(FeeRateDouble.mant, s, 1, 0)}}})

\* Utils.calculateFee
calculateFee(subtotalCents) == MathCeilTimesRate(subtotalCents)

(***************************************************************************)
(* The cart document: a sequence of line items [sku, key, quantity].  The  *)
(* ordinary product has key 0; fee lines have keys 1..MaxFeeLines.         *)
(***************************************************************************)
final_line_price(item) == item.quantity * UnitPrice

RECURSIVE getSubtotalWithoutFee(_)
getSubtotalWithoutFee(c) ==
  IF c = <<>> THEN 0
  ELSE (IF Head(c).sku # FEE THEN final_line_price(Head(c)) ELSE 0)
       + getSubtotalWithoutFee(Tail(c))

FeeIndexes(c) == {i \in 1..Len(c) : c[i].sku = FEE}

\* index (1-based) of the first fee line, 0 when there is none
findFeeLineItem(c) ==
  IF FeeIndexes(c) = {} THEN 0
  ELSE CHOOSE i \in FeeIndexes(c) : \A j \in FeeIndexes(c) : i <= j

hasFeeLine(c) == findFeeLineItem(c) # 0

RECURSIVE ItemQty(_)
ItemQty(c) ==
  IF c = <<>> THEN 0
  ELSE (IF Head(c).sku = ITEM THEN Head(c).quantity ELSE 0) + ItemQty(Tail(c))

RemoveAt(c, i) == SubSeq(c, 1, i - 1) \o SubSeq(c, i + 1, Len(c))


(***************************************************************************)
(* The cart store (external): what /cart/add.js and /cart/change.js do to  *)
(* the cart document.  Each returns [ok, cart].  A new line is inserted at *)
(* the front of the cart.  Whether an add of the fee variant is merged     *)
(* into an existing fee line or makes a line of its own is the store's     *)
(* choice (storeMerges).                                                   *)
(***************************************************************************)
FreeFeeKeys(c) == {k \in 1..MaxFeeLines : \A i \in 1..Len(c) : c[i].key # k}

FeeLine(k, q) == [sku |-> FEE, key |-> k, quantity |-> q]

\* POST /cart/add.js {id: PAYPAL_FEE_VARIANT_ID, quantity}
StoreAddFee(c, quantity, merges) ==
  LET i == findFeeLineItem(c) IN
  IF quantity <= 0 THEN [ok |-> FALSE, cart |-> c]
  ELSE IF merges /\ i # 0
  THEN [ok |-> TRUE,
        cart |-> [c EXCEPT ![i].quantity = c[i].quantity + quantity]]
  ELSE [ok |-> TRUE,
        cart |-> <<FeeLine(CHOOSE k \in FreeFeeKeys(c) :
                             \A j \in FreeFeeKeys(c) : k <= j, quantity)>> \o c]

\* the add stays inside the bounds of the model
CanAddFee(c, quantity, merges) ==
  IF merges /\ hasFeeLine(c)
  THEN c[findFeeLineItem(c)].quantity + quantity <= MaxFeeQty
  ELSE FreeFeeKeys(c) # {} /\ quantity <= MaxFeeQty

\* POST /cart/change.js {line, quantity: 0}
StoreChangeLine(c, line) ==
  IF line \in 1..Len(c)
  THEN [ok |-> TRUE, cart |-> RemoveAt(c, line)]
  ELSE [ok |-> FALSE, cart |-> c]

\* POST /cart/change.js {id: key, quantity}
StoreChangeKey(c, key, quantity) ==
  LET hit == {i \in 1..Len(c) : c[i].key = key} IN
  IF hit = {} THEN [ok |-> FALSE, cart |-> c]
  ELSE LET i == CHOOSE j \in hit : TRUE IN
       [ok |-> TRUE,
        cart |-> IF quantity = 0 THEN RemoveAt(c, i)
                 ELSE [c EXCEPT ![i].quantity = quantity]]

\* the ordinary line set to quantity q by the shopper (theme controls,
\* product form): removed at 0, inserted at the front when new
StoreSetItemQty(c, q) ==
  LET hit == {i \in 1..Len(c) : c[i].sku = ITEM} IN
  IF hit = {}
  THEN (IF q = 0 THEN c ELSE <<[sku |-> ITEM, key |-> 0, quantity |-> q]>> \o c)
  ELSE LET i == CHOOSE j \in hit : TRUE IN
       IF q = 0 THEN RemoveAt(c, i) ELSE [c EXCEPT ![i].quantity = q]

(***************************************************************************)
(* State.                                                                  *)
(***************************************************************************)
VARIABLES
  cart,                \* the store's cart document
  storeMerges,         \* the store merges a repeated add of the fee variant
  sessionAdded,        \* sessionStorage[SESSION_KEY_ADDED] = 'true'
  page,                \* "cart" (cart section and main checkbox) or "product"
  attached,            \* AddToCartNoRedirect.attached
  cbChecked,           \* the page's fee checkbox: checked
  cbDisabled,          \* the page's fee checkbox: disabled
  loader,              \* the full-screen #paypal-fee-loader is shown
  modalActive,         \* the removal modal has class 'active'
  bodyOverflowHidden,  \* document.body.style.overflow = 'hidden'
  pendingTimers,       \* ids of the timeouts not yet fired or cleared
  recalcTimer,         \* CheckboxHandler._recalcTimer (0: undefined)
  qtyListeners,        \* copies of scheduleRecalc registered on the document
  procs,               \* bag of the async pipelines in flight
  dirty,               \* the subtotal or the preference changed with no
                       \* trigger started since (no pipeline need have seen
                       \* the change)
  confirmed            \* a confirmRemoval has completed and the shopper has
                       \* not used a fee checkbox since

vars == <<cart, storeMerges, sessionAdded, page, attached, cbChecked,
          cbDisabled, loader, modalActive, bodyOverflowHidden, pendingTimers,
          recalcTimer, qtyListeners, procs, dirty, confirmed>>

PassKinds == {"recalc", "cartUpdated", "pageInit"}
Kinds     == PassKinds \cup {"checkEmpty", "checkbox", "ajaxAdd", "confirm"}

Proc(kind, pc) == [kind |-> kind, pc |-> pc, line |-> 0, key |-> 0, qty |-> 0]

One(p) == SetToBag({p})

Min(a, b) == IF a < b THEN a ELSE b

InFlight == BagToSet(procs)

Quiescent == procs = EmptyBag /\ pendingTimers = {}

(***************************************************************************)
(* What the continuation of a pipeline step does besides the cart call:    *)
(* a record k of the pipelines it leaves in flight (spawn), the session    *)
(* flag, the checkbox, the loader, the number of CheckboxHandler.init runs *)
(* and whether window.location.reload() was called.                        *)
(***************************************************************************)
K0 == [spawn |-> EmptyBag, session |-> sessionAdded, cbChecked |-> cbChecked,
       cbDisabled |-> cbDisabled, loader |-> loader, inits |-> 0,
       reload |-> FALSE]

Reload(k) == [k EXCEPT !.reload = TRUE]

\* CheckboxHandler.init: sync and re-bind the checkbox, register one more
\* copy of the quantity listeners, start checkEmptyCart
CheckboxHandlerInit(k) ==
  [k EXCEPT !.cbChecked = k.session, !.cbDisabled = FALSE, !.inits = @ + 1,
            !.spawn = @ (+) One(Proc("checkEmpty", "get"))]

\* document.dispatchEvent('cart:updated'): each of the InitCalls listeners
\* starts checkEmptyCart and then its own getCart
DispatchCartUpdated(k) ==
  [k EXCEPT !.spawn = @ (+) [p \in {Proc("checkEmpty", "get"),
                                     Proc("cartUpdated", "get")} |-> InitCalls]]

\* CartAPI.refreshCartUI up to its fetch: reload when the page has no cart
\* section, else wait for the fragment
refreshCartUI(k, kind, pc) ==
  IF page = "cart" THEN [k EXCEPT !.spawn = @ (+) One(Proc(kind, pc))]
  ELSE Reload(k)

\* variant: the page-init pass refreshes the cart like the other two passes
AfterUpdateFeeRefreshes(k, kind) == refreshCartUI(k, kind, "refresh_out")

\* what follows `await CartAPI.updateFee()` in its caller
AfterUpdateFee(k, kind) ==
  IF kind \in {"recalc", "cartUpdated"}
  THEN refreshCartUI(k, kind, "refresh_out")
  ELSE k

\* what follows the return of addFee / setFeeQuantity in its caller
AfterAddFee(k, kind) ==
  CASE kind \in PassKinds -> AfterUpdateFee(k, kind)
    [] kind = "checkbox" -> Reload(k)
    [] kind = "ajaxAdd"  -> DispatchCartUpdated(k)

\* variant: checkEmptyCart that leaves the session key in place
AfterRemoveFeeKeepsSession(k, kind) ==
  CASE kind \in PassKinds   -> AfterUpdateFee(k, kind)
    [] kind = "checkEmpty" ->
         [k EXCEPT !.cbChecked = IF page = "cart" THEN FALSE ELSE @]
    [] kind = "checkbox"   -> Reload(k)
    [] kind = "confirm"    ->
         refreshCartUI([k EXCEPT !.session = FALSE], kind, "refresh_out")

\* what follows the return of removeFee in its caller
AfterRemoveFee(k, kind) ==
  CASE kind \in PassKinds   -> AfterUpdateFee(k, kind)
    [] kind = "checkEmpty" ->
         [k EXCEPT !.session = FALSE,
                   !.cbChecked = IF page = "cart" THEN FALSE ELSE @]
    [] kind = "checkbox"   -> Reload(k)
    [] kind = "confirm"    ->
         refreshCartUI([k EXCEPT !.session = FALSE], kind, "refresh_out")

(***************************************************************************)
(* Page load: the script runs init() InitCalls times; each run calls       *)
(* CheckboxHandler.init (listeners, checkEmptyCart) and starts the         *)
(* page-init pass.  Timers and pipelines of the old document are gone.     *)
(***************************************************************************)
LoadedProcs ==
  [p \in {Proc("checkEmpty", "get"), Proc("pageInit", "get")} |-> InitCalls]

LoadPage(pg, c, session) ==
  /\ page' = pg
  /\ cart' = c
  /\ sessionAdded' = session
  /\ cbChecked' = session
  /\ cbDisabled' = FALSE
  /\ loader' = FALSE
  /\ modalActive' = FALSE
  /\ bodyOverflowHidden' = FALSE
  /\ pendingTimers' = {}
  /\ recalcTimer' = 0
  /\ qtyListeners' = Min(InitCalls, MaxListeners)
  /\ procs' = LoadedProcs
  /\ dirty' = FALSE
  /\ UNCHANGED <<storeMerges, attached>>

\* the step of pipeline p with continuation k is the last one of its async
\* function: nothing of its kind is left in flight by it
Returns(p, k) == \A q \in BagToSet(k.spawn) : q.kind # p.kind

\* the effect of one pipeline step: p leaves the bag, k takes effect
Commit(p, c, k) ==
  /\ confirmed' = (confirmed \/ (p.kind = "confirm" /\ Returns(p, k)))
  /\ IF k.reload THEN LoadPage(page, c, k.session)
     ELSE /\ BagCardinality(procs) - 1 + BagCardinality(k.spawn) <= MaxProcs
          /\ procs' = (procs (-) One(p)) (+) k.spawn
          /\ cart' = c
          /\ sessionAdded' = k.session
          /\ cbChecked' = k.cbChecked
          /\ cbDisabled' = k.cbDisabled
          /\ loader' = k.loader
          /\ qtyListeners' = Min(qtyListeners + k.inits, MaxListeners)
          /\ dirty' = (dirty \/ getSubtotalWithoutFee(c)
                                   # getSubtotalWithoutFee(cart))
          /\ UNCHANGED <<storeMerges, page, attached, modalActive,
                         bodyOverflowHidden, pendingTimers, recalcTimer>>

InitCarts ==
  {<<>>}
  \cup {<<[sku |-> ITEM, key |-> 0, quantity |-> q]>> : q \in 1..MaxQty}
  \cup {<<FeeLine(1, calculateFee(q * UnitPrice)),
          [sku |-> ITEM, key |-> 0, quantity |-> q]>> : q \in 1..MaxQty}

Init ==
  /\ cart \in InitCarts
  /\ storeMerges \in BOOLEAN
  /\ attached \in BOOLEAN
  /\ page \in {"cart", "product"}
  /\ sessionAdded = FALSE
  /\ cbChecked = FALSE
  /\ cbDisabled = FALSE
  /\ loader = FALSE
  /\ modalActive = FALSE
  /\ bodyOverflowHidden = FALSE
  /\ pendingTimers = {}
  /\ recalcTimer = 0
  /\ qtyListeners = Min(InitCalls, MaxListeners)
  /\ procs = LoadedProcs
  /\ dirty = FALSE
  /\ confirmed = FALSE

(***************************************************************************)
(* The decisions of CartAPI.updateFee and CartAPI.removeFee on the cart    *)
(* they have read: the one cart call they issue next.                      *)
(***************************************************************************)
Request(op, line, key, qty) ==
  [op |-> op, line |-> line, key |-> key, qty |-> qty]

\* variant: a pass that removes the fee line whenever the preference is not
\* wants-fee
UpdateFeeDecisionByPreference(c) ==
  LET subtotal        == getSubtotalWithoutFee(c)
      desiredQuantity == calculateFee(subtotal)
      existingFee     == findFeeLineItem(c)
  IN  IF subtotal = 0 \/ ~sessionAdded THEN Request("removeFee", 0, 0, 0)
      ELSE IF existingFee # 0 /\ c[existingFee].quantity = desiredQuantity
      THEN Request("none", 0, 0, 0)
      ELSE IF existingFee # 0
      THEN Request("set", 0, c[existingFee].key, desiredQuantity)
      ELSE Request("add", 0, 0, desiredQuantity)

\* variant: updateFee without its `subtotal === 0` branch
UpdateFeeDecisionNoZeroRule(c) ==
  LET subtotal        == getSubtotalWithoutFee(c)
      desiredQuantity == calculateFee(subtotal)
      existingFee     == findFeeLineItem(c)
  IN  IF existingFee # 0 /\ c[existingFee].quantity = desiredQuantity
      THEN Request("none", 0, 0, 0)
      ELSE IF existingFee # 0
      THEN Request("set", 0, c[existingFee].key, desiredQuantity)
      ELSE Request("add", 0, 0, desiredQuantity)

\* variant: updateFee without its "already correct" early return
UpdateFeeDecisionAlwaysWrites(c) ==
  LET subtotal        == getSubtotalWithoutFee(c)
      desiredQuantity == calculateFee(subtotal)
      existingFee     == findFeeLineItem(c)
  IN  IF subtotal = 0 THEN Request("removeFee", 0, 0, 0)
      ELSE IF existingFee # 0
      THEN Request("set", 0, c[existingFee].key, desiredQuantity)
      ELSE Request("add", 0, 0, desiredQuantity)

UpdateFeeDecision(c) ==
  LET subtotal        == getSubtotalWithoutFee(c)
      desiredQuantity == calculateFee(subtotal)
      existingFee     == findFeeLineItem(c)
  IN  IF subtotal = 0 THEN Request("removeFee", 0, 0, 0)
      ELSE IF existingFee # 0 /\ c[existingFee].quantity = desiredQuantity
      THEN Request("none", 0, 0, 0)
      ELSE IF existingFee # 0
      THEN Request("set", 0, c[existingFee].key, desiredQuantity)
      ELSE Request("add", 0, 0, desiredQuantity)

RemoveFeeDecision(c) ==
  LET lineIndex == findFeeLineItem(c)
  IN  IF lineIndex = 0 THEN Request("none", 0, 0, 0)
      ELSE Request("change", lineIndex, 0, 0)

\* variant: a pass without its guard
PassGuardAlways(c, userWantsFee) == TRUE

\* the guard of the three reconciliation passes: if (hasFee || userWantsFee)
PassGuard(c, userWantsFee) == hasFeeLine(c) \/ userWantsFee

(***************************************************************************)
(* Pipeline steps.  p is a pipeline in flight; ok says whether the fetch   *)
(* it waits for succeeds.                                                  *)
(***************************************************************************)
PassRead(p, ok) ==
  /\ p.pc = "get"
  /\ Commit(p, cart,
            IF ok /\ PassGuard(cart, sessionAdded)
            THEN [K0 EXCEPT !.spawn = One(Proc(p.kind, "uf_get"))]
            ELSE K0)

\* the callback of the debounce timer, after its getCart
recalcRead(p, ok) == p \in InFlight /\ p.kind = "recalc" /\ PassRead(p, ok)

\* the cart:updated listener, after its getCart
cartUpdatedRead(p, ok) ==
  p \in InFlight /\ p.kind = "cartUpdated" /\ PassRead(p, ok)

\* the page-init pass, after its getCart
pageInitRead(p, ok) == p \in InFlight /\ p.kind = "pageInit" /\ PassRead(p, ok)

\* CartAPI.updateFee after its getCart
updateFee(p, ok) ==
  /\ p \in InFlight /\ p.pc = "uf_get"
  /\ \E d \in {UpdateFeeDecision(cart)} :
     Commit(p, cart,
       IF ~ok \/ d.op = "none" THEN AfterUpdateFee(K0, p.kind)
       ELSE IF d.op = "removeFee"
       THEN [K0 EXCEPT !.spawn = One(Proc(p.kind, "rf_get"))]
       ELSE [K0 EXCEPT !.spawn =
               One([Proc(p.kind, d.op) EXCEPT !.key = d.key, !.qty = d.qty])])

\* CartAPI.removeFee after its getCart
removeFee(p, ok) ==
  /\ p \in InFlight /\ p.pc = "rf_get"
  /\ LET d == RemoveFeeDecision(cart) IN
     Commit(p, cart,
       IF ~ok \/ d.op = "none" THEN AfterRemoveFee(K0, p.kind)
       ELSE [K0 EXCEPT !.spawn =
               One([Proc(p.kind, "rf_change") EXCEPT !.line = d.line])])

\* CartAPI.removeFee after its /cart/change.js {line, quantity: 0}
removeFeeChange(p, ok) ==
  /\ p \in InFlight /\ p.pc = "rf_change"
  /\ LET r == IF ok THEN StoreChangeLine(cart, p.line)
                    ELSE [ok |-> FALSE, cart |-> cart]
     IN  Commit(p, r.cart, AfterRemoveFee(K0, p.kind))

\* CartAPI.addFee after its /cart/add.js
addFee(p, ok) ==
  /\ p \in InFlight /\ p.pc = "add"
  /\ ok /\ p.qty > 0 => CanAddFee(cart, p.qty, storeMerges)
  /\ LET r == IF ok THEN StoreAddFee(cart, p.qty, storeMerges)
                    ELSE [ok |-> FALSE, cart |-> cart]
     IN  Commit(p, r.cart,
                IF r.ok THEN refreshCartUI(K0, p.kind, "refresh_in")
                ELSE AfterAddFee(K0, p.kind))

\* CartAPI.setFeeQuantity after its /cart/change.js {id, quantity}
setFeeQuantity(p, ok) ==
  /\ p \in InFlight /\ p.pc = "set"
  /\ LET r == IF ok THEN StoreChangeKey(cart, p.key, p.qty)
                    ELSE [ok |-> FALSE, cart |-> cart]
     IN  Commit(p, r.cart,
                IF r.ok THEN refreshCartUI(K0, p.kind, "refresh_in")
                ELSE AfterAddFee(K0, p.kind))

\* variant: a refresh whose failure leaves the old fragment in place
refreshCartUIDoneKeepsStale(p, replaced) ==
  /\ p \in InFlight /\ p.pc \in {"refresh_in", "refresh_out"}
  /\ Commit(p, cart,
       IF ~replaced THEN K0
       ELSE IF p.pc = "refresh_in"
       THEN AfterAddFee(CheckboxHandlerInit(K0), p.kind)
       ELSE CheckboxHandlerInit(K0))

\* CartAPI.refreshCartUI after its fetch of the cart section: the fragment
\* is replaced and CheckboxHandler.init runs, or the page is reloaded
refreshCartUIDone(p, replaced) ==
  /\ p \in InFlight /\ p.pc \in {"refresh_in", "refresh_out"}
  /\ Commit(p, cart,
       IF ~replaced THEN Reload(K0)
       ELSE IF p.pc = "refresh_in"
       THEN AfterAddFee(CheckboxHandlerInit(K0), p.kind)
       ELSE CheckboxHandlerInit(K0))

\* CheckboxHandler.checkEmptyCart after its getCart
checkEmptyCart(p, ok) ==
  /\ p \in InFlight /\ p.kind = "checkEmpty" /\ p.pc = "get"
  /\ Commit(p, cart,
       IF ok /\ getSubtotalWithoutFee(cart) = 0
       THEN [K0 EXCEPT !.spawn = One(Proc("checkEmpty", "rf_get"))]
       ELSE K0)

\* CheckboxHandler.handleCheckboxChange (checked) after its getCart: addFee
\* with the fee of the subtotal, or the catch block when the read failed
\* (getSubtotalWithoutFee(null) throws)
handleCheckboxChangeRead(p, ok) ==
  /\ p \in InFlight /\ p.kind = "checkbox" /\ p.pc = "get"
  /\ \E feeAmount \in {calculateFee(getSubtotalWithoutFee(cart))} :
     Commit(p, cart,
       IF ok
       THEN [K0 EXCEPT !.spawn =
               One([Proc("checkbox", "add") EXCEPT !.qty = feeAmount])]
       ELSE [K0 EXCEPT !.loader = FALSE, !.cbChecked = FALSE,
                       !.cbDisabled = FALSE, !.session = FALSE])

\* AddToCartNoRedirect.ajaxAdd after its /cart/add.js of the product
ajaxAddProduct(p, outcome) ==
  /\ p \in InFlight /\ p.kind = "ajaxAdd" /\ p.pc = "product"
  /\ outcome = "added" => ItemQty(cart) < MaxQty
  /\ Commit(p,
            IF outcome = "added"
            THEN StoreSetItemQty(cart, ItemQty(cart) + 1) ELSE cart,
            IF outcome = "neterr" THEN K0
            ELSE IF sessionAdded
            THEN [K0 EXCEPT !.spawn = One(Proc("ajaxAdd", "get"))]
            ELSE DispatchCartUpdated(K0))

\* AddToCartNoRedirect.ajaxAdd after its getCart
ajaxAddRead(p, ok) ==
  /\ p \in InFlight /\ p.kind = "ajaxAdd" /\ p.pc = "get"
  /\ \E feeAmount \in {calculateFee(getSubtotalWithoutFee(cart))} :
     Commit(p, cart,
       IF ok
       THEN [K0 EXCEPT !.spawn =
               One([Proc("ajaxAdd", "add") EXCEPT !.qty = feeAmount])]
       ELSE DispatchCartUpdated(K0))

(***************************************************************************)
(* The debounce timer.  t = [pending, cur]: the timeouts outstanding and   *)
(* CheckboxHandler._recalcTimer.  setTimeout hands out the smallest id not *)
(* outstanding.                                                            *)
(***************************************************************************)
FreeTimerIds(pending) == (1..MaxTimers) \ pending

\* window.setTimeout(callback, 600)
setTimeout(t) ==
  IF FreeTimerIds(t.pending) = {} THEN t
  ELSE LET id == CHOOSE i \in FreeTimerIds(t.pending) :
                   \A j \in FreeTimerIds(t.pending) : i <= j
       IN  [pending |-> t.pending \cup {id}, cur |-> id]

\* variant: a clearTimeout that cancels nothing
clearTimeoutNothing(t) == t

\* window.clearTimeout(this._recalcTimer)
clearTimeout(t) == [t EXCEPT !.pending = @ \ {t.cur}]

\* variant: scheduleRecalc without its clearTimeout
scheduleRecalcNoClear(t) == setTimeout(t)

scheduleRecalc(t) == setTimeout(clearTimeout(t))

\* one user event runs every registered copy of the listener in turn
RECURSIVE RunListeners(_, _)
RunListeners(t, n) ==
  IF n = 0 THEN t ELSE RunListeners(scheduleRecalc(t), n - 1)

(***************************************************************************)
(* User and environment events.                                            *)
(***************************************************************************)
Room(n) == BagCardinality(procs) + n <= MaxProcs

\* a click on a quantity +/- or remove control, or a change/input event of
\* a quantity field: the theme sets the ordinary line to q and every copy of
\* the listener runs scheduleRecalc
QtyEvent(q) ==
  /\ cart' = StoreSetItemQty(cart, q)
  /\ LET t == RunListeners([pending |-> pendingTimers, cur |-> recalcTimer],
                           qtyListeners)
     IN  pendingTimers' = t.pending /\ recalcTimer' = t.cur
  /\ UNCHANGED confirmed
  /\ UNCHANGED <<storeMerges, sessionAdded, page, attached, cbChecked,
                 cbDisabled, loader, modalActive, bodyOverflowHidden,
                 qtyListeners, procs, dirty>>

\* a timeout fires: the debounced recalculation starts with its getCart
TimerFire(id) ==
  /\ id \in pendingTimers
  /\ Room(1)
  /\ pendingTimers' = pendingTimers \ {id}
  /\ procs' = procs (+) One(Proc("recalc", "get"))
  /\ dirty' = FALSE
  /\ UNCHANGED confirmed
  /\ UNCHANGED <<cart, storeMerges, sessionAdded, page, attached, cbChecked,
                 cbDisabled, loader, modalActive, bodyOverflowHidden,
                 recalcTimer, qtyListeners>>

\* the theme has set the ordinary line to q and dispatches cart:updated
CartUpdatedEvent(q) ==
  /\ Room(2 * InitCalls)
  /\ cart' = StoreSetItemQty(cart, q)
  /\ procs' = procs (+) DispatchCartUpdated(K0).spawn
  /\ dirty' = FALSE
  /\ UNCHANGED confirmed
  /\ UNCHANGED <<storeMerges, sessionAdded, page, attached, cbChecked,
                 cbDisabled, loader, modalActive, bodyOverflowHidden,
                 pendingTimers, recalcTimer, qtyListeners>>

\* the shopper opens another page, or reloads this one
Navigate(pg) == LoadPage(pg, cart, sessionAdded) /\ UNCHANGED confirmed

\* CheckboxHandler.handleCheckboxChange up to its first await
handleCheckboxChange ==
  /\ page = "cart" /\ ~cbDisabled /\ ~loader
  /\ Room(1)
  /\ LET isChecked == ~cbChecked IN
     /\ cbChecked' = isChecked
     /\ sessionAdded' = isChecked
     /\ procs' = procs (+) One(Proc("checkbox",
                                    IF isChecked THEN "get" ELSE "rf_get"))
  /\ cbDisabled' = TRUE
  /\ loader' = TRUE
  /\ dirty' = FALSE
  /\ confirmed' = FALSE
  /\ UNCHANGED <<cart, storeMerges, page, attached, modalActive,
                 bodyOverflowHidden, pendingTimers, recalcTimer, qtyListeners>>

\* CheckboxHandler.handleProductCheckboxChange
handleProductCheckboxChange ==
  /\ page = "product" /\ ~loader
  /\ cbChecked' = ~cbChecked
  /\ sessionAdded' = ~cbChecked
  /\ dirty' = TRUE
  /\ confirmed' = FALSE
  /\ UNCHANGED <<cart, storeMerges, page, attached, cbDisabled, loader,
                 modalActive, bodyOverflowHidden, pendingTimers, recalcTimer,
                 qtyListeners, procs>>

\* AddToCartNoRedirect.ajaxAdd up to its fetch
ajaxAdd ==
  /\ attached /\ ~loader
  /\ Room(1)
  /\ procs' = procs (+) One(Proc("ajaxAdd", "product"))
  /\ dirty' = FALSE
  /\ confirmed' = FALSE
  /\ UNCHANGED <<cart, storeMerges, sessionAdded, page, attached, cbChecked,
                 cbDisabled, loader, modalActive, bodyOverflowHidden,
                 pendingTimers, recalcTimer, qtyListeners>>

(***************************************************************************)
(* The removal confirmation modal.                                         *)
(***************************************************************************)
\* variant: a modal shown without blocking the scroll of the page
showConfirmModalNoScrollLock ==
  /\ modalActive' = TRUE
  /\ UNCHANGED confirmed
  /\ UNCHANGED <<cart, storeMerges, sessionAdded, page, attached, cbChecked,
                 cbDisabled, loader, bodyOverflowHidden, pendingTimers,
                 recalcTimer, qtyListeners, procs, dirty>>

\* RemoveFeeHandler.showConfirmModal
showConfirmModal ==
  /\ modalActive' = TRUE
  /\ bodyOverflowHidden' = TRUE
  /\ UNCHANGED confirmed
  /\ UNCHANGED <<cart, storeMerges, sessionAdded, page, attached, cbChecked,
                 cbDisabled, loader, pendingTimers, recalcTimer, qtyListeners,
                 procs, dirty>>

\* variant: a close that also clears the preference and starts the removal
closeConfirmModalAndRemove ==
  /\ modalActive' = FALSE
  /\ bodyOverflowHidden' = FALSE
  /\ sessionAdded' = FALSE
  /\ procs' = procs (+) One(Proc("confirm", "rf_get"))
  /\ UNCHANGED confirmed
  /\ UNCHANGED <<cart, storeMerges, page, attached, cbChecked, cbDisabled,
                 loader, pendingTimers, recalcTimer, qtyListeners, dirty>>

\* RemoveFeeHandler.closeConfirmModal
closeConfirmModal ==
  /\ modalActive' = FALSE
  /\ bodyOverflowHidden' = FALSE
  /\ UNCHANGED confirmed
  /\ UNCHANGED <<cart, storeMerges, sessionAdded, page, attached, cbChecked,
                 cbDisabled, loader, pendingTimers, recalcTimer, qtyListeners,
                 procs, dirty>>

\* RemoveFeeHandler.handleRemoveClick on a [data-paypal-fee-remove] control
handleRemoveClick == ~loader /\ showConfirmModal

\* click on [data-modal-cancel]
CancelClick == modalActive /\ ~loader /\ closeConfirmModal

\* click on the overlay itself
OverlayClick == modalActive /\ ~loader /\ closeConfirmModal

\* keydown: closes only when the key is Escape and the modal is active
EscapeKey == IF modalActive THEN closeConfirmModal ELSE UNCHANGED vars

\* click on [data-modal-confirm]: confirmRemoval closes the modal and runs
\* up to removeFee's getCart
confirmRemoval ==
  /\ modalActive /\ ~loader
  /\ Room(1)
  /\ modalActive' = FALSE
  /\ bodyOverflowHidden' = FALSE
  /\ procs' = procs (+) One(Proc("confirm", "rf_get"))
  /\ dirty' = FALSE
  /\ UNCHANGED confirmed
  /\ UNCHANGED <<cart, storeMerges, sessionAdded, page, attached, cbChecked,
                 cbDisabled, loader, pendingTimers, recalcTimer, qtyListeners>>

(***************************************************************************)
(* Next-state relations.  Every fetch of a pipeline succeeds or fails; the *)
(* parameter `failures` of the step sets says which may fail: "any",       *)
(* "writes" (every getCart succeeds) or "none".                            *)
(***************************************************************************)
ReadPcs == {"get", "uf_get", "rf_get"}

Outcomes(failures, p) ==
  IF failures = "any" \/ (failures = "writes" /\ p.pc \notin ReadPcs)
  THEN BOOLEAN ELSE {TRUE}

\* the steps every page runs: page load starts checkEmptyCart and the
\* page-init pass
PassSteps(failures) ==
  \/ \E p \in InFlight : \E ok \in Outcomes(failures, p) : pageInitRead(p, ok)
  \/ \E p \in InFlight : \E ok \in Outcomes(failures, p) : updateFee(p, ok)
  \/ \E p \in InFlight : \E ok \in Outcomes(failures, p) : removeFee(p, ok)
  \/ \E p \in InFlight : \E ok \in Outcomes(failures, p) :
       removeFeeChange(p, ok)
  \/ \E p \in InFlight : \E ok \in Outcomes(failures, p) : addFee(p, ok)
  \/ \E p \in InFlight : \E ok \in Outcomes(failures, p) :
       setFeeQuantity(p, ok)
  \/ \E p \in InFlight : \E ok \in Outcomes(failures, p) :
       refreshCartUIDone(p, ok)
  \/ \E p \in InFlight : \E ok \in Outcomes(failures, p) : checkEmptyCart(p, ok)

RecalcSteps(failures) ==
  \/ \E id \in pendingTimers : TimerFire(id)
  \/ \E p \in InFlight : \E ok \in Outcomes(failures, p) : recalcRead(p, ok)

CartUpdatedStep(failures) ==
  \E p \in InFlight : \E ok \in Outcomes(failures, p) : cartUpdatedRead(p, ok)

CheckboxStep(failures) ==
  \E p \in InFlight : \E ok \in Outcomes(failures, p) :
    handleCheckboxChangeRead(p, ok)

ModalEvent ==
  \/ handleRemoveClick
  \/ CancelClick
  \/ OverlayClick
  \/ EscapeKey
  \/ confirmRemoval

\* the pages on which AddToCartNoRedirect is not attached
InitDrawer == Init /\ ~attached

\* Spec: the cart page and the product page with the checkbox and the
\* theme's cart:updated events, every interleaving, every fetch free to fail
Next ==
  \/ \E q \in 0..MaxQty : CartUpdatedEvent(q)
  \/ handleCheckboxChange
  \/ handleProductCheckboxChange
  \/ \E pg \in {"cart", "product"} : Navigate(pg)
  \/ PassSteps("any")
  \/ CartUpdatedStep("any")
  \/ CheckboxStep("any")

Spec == InitDrawer /\ [][Next]_vars

\* a quantity control used while at most MaxBusy pipelines are in flight
QtyEventIdle(q) == BagCardinality(procs) <= MaxBusy /\ QtyEvent(q)

\* SpecTimer: the quantity controls and the debounce timer
NextTimer ==
  \/ \E q \in 0..MaxQty : QtyEventIdle(q)
  \/ handleProductCheckboxChange
  \/ \E pg \in {"cart", "product"} : Navigate(pg)
  \/ RecalcSteps("any")
  \/ PassSteps("any")

SpecTimer == InitDrawer /\ [][NextTimer]_vars

\* SpecModal: the removal confirmation modal
NextModal ==
  \/ ModalEvent
  \/ handleProductCheckboxChange
  \/ \E pg \in {"cart", "product"} : Navigate(pg)
  \/ PassSteps("any")

SpecModal == InitDrawer /\ [][NextModal]_vars

\* SpecConfirm: the removal confirmation modal beside the passes in flight,
\* no fetch fails
NextConfirm ==
  \/ ModalEvent
  \/ handleProductCheckboxChange
  \/ \E pg \in {"cart", "product"} : Navigate(pg)
  \/ PassSteps("none")

SpecConfirm == InitDrawer /\ [][NextConfirm]_vars

\* SpecSeq: every trigger, one at a time (a trigger starts only when no
\* pipeline is in flight and no timer is pending), no fetch fails
Trigger ==
  \/ \E q \in 0..MaxQty : QtyEvent(q)
  \/ \E q \in 0..MaxQty : CartUpdatedEvent(q)
  \/ handleCheckboxChange
  \/ handleProductCheckboxChange
  \/ ajaxAdd
  \/ confirmRemoval
  \/ \E pg \in {"cart", "product"} : Navigate(pg)

AjaxAddSteps(failures) ==
  \/ \E p \in InFlight :
       \E o \in IF failures = "none" THEN {"added"}
                ELSE {"added", "rejected", "neterr"} : ajaxAddProduct(p, o)
  \/ \E p \in InFlight : \E ok \in Outcomes(failures, p) : ajaxAddRead(p, ok)

NextSeq ==
  \/ Quiescent /\ Trigger
  \/ Quiescent /\ handleRemoveClick
  \/ RecalcSteps("none")
  \/ PassSteps("none")
  \/ CartUpdatedStep("none")
  \/ CheckboxStep("none")
  \/ AjaxAddSteps("none")

SpecSeq == Init /\ [][NextSeq]_vars

\* SpecReads: the cart:updated and page-init passes, the empty-cart check
\* and the fragment refresh, where every getCart succeeds (the other fetches
\* are free to fail)
NextReads ==
  \/ \E q \in 0..MaxQty : CartUpdatedEvent(q)
  \/ handleProductCheckboxChange
  \/ \E pg \in {"cart", "product"} : Navigate(pg)
  \/ PassSteps("writes")
  \/ CartUpdatedStep("writes")

SpecReads == InitDrawer /\ [][NextReads]_vars

\* SpecAll: every event and every step together
NextAll ==
  \/ Trigger
  \/ ModalEvent
  \/ RecalcSteps("any")
  \/ PassSteps("any")
  \/ CartUpdatedStep("any")
  \/ CheckboxStep("any")
  \/ AjaxAddSteps("any")

SpecAll == Init /\ [][NextAll]_vars

\* a step the program takes by itself: a fetch in flight is answered (the
\* call succeeds) or the debounce timer fires
EngineStep ==
  \/ RecalcSteps("none")
  \/ PassSteps("none")
  \/ CartUpdatedStep("none")
  \/ CheckboxStep("none")
  \/ AjaxAddSteps("none")

\* SpecQuiesce: SpecSeq where no answer and no timer is withheld for ever:
\* the shopper and the theme act only while nothing is in flight, and the
\* program's own steps keep coming as long as one is possible
SpecQuiesce == Init /\ [][NextSeq]_vars /\ WF_vars(EngineStep)

(***************************************************************************)
(* Vocabulary of the properties.                                           *)
(***************************************************************************)
subtotalExcludingFee == getSubtotalWithoutFee(cart)

\* the step starts a pipeline q (one more copy of q is in flight after it)
Started(q) == CopiesIn(q, procs') > CopiesIn(q, procs)

\* the step issues a call that changes the cart: /cart/add.js or
\* /cart/change.js
IssuesAdd    == \E q \in BagToSet(procs') : q.pc = "add" /\ Started(q)
IssuesSet    == \E q \in BagToSet(procs') : q.pc = "set" /\ Started(q)
IssuesRemove == \E q \in BagToSet(procs') : q.pc = "rf_change" /\ Started(q)

IssuesMutation == IssuesAdd \/ IssuesSet \/ IssuesRemove

\* the cart call a reconciliation pass ends up issuing on the snapshot c
PassRequest(c, userWantsFee) ==
  IF ~PassGuard(c, userWantsFee) THEN Request("none", 0, 0, 0)
  ELSE LET d == UpdateFeeDecision(c) IN
       IF d.op = "removeFee" THEN RemoveFeeDecision(c) ELSE d

\* the cart after the store has served the request r
ApplyRequest(c, r) ==
  CASE r.op = "add"    -> StoreAddFee(c, r.qty, storeMerges).cart
    [] r.op = "set"    -> StoreChangeKey(c, r.key, r.qty).cart
    [] r.op = "change" -> StoreChangeLine(c, r.line).cart
    [] OTHER           -> c

(***************************************************************************)
(* C1.  In every reachable state, under any interleaving of checkbox       *)
(* toggles, cart-updated events and page initialisations, the cart holds   *)
(* at most one fee line item.                                              *)
(* Refuted: handleCheckboxChange calls addFee without looking for a fee    *)
(* line, and a store that does not merge the add makes a second line.      *)
(***************************************************************************)
C1_AtMostOneFeeLine == Cardinality(FeeIndexes(cart)) <= 1

(***************************************************************************)
(* C2.  With triggers run one at a time and no fetch failing, once every   *)
(* pipeline has completed, if the preference is wants-fee and the subtotal *)
(* excluding the fee is positive, the cart holds exactly one fee line and  *)
(* its quantity is calculateFee(subtotalExcludingFee).                     *)
(* Refuted: checking the checkbox over a cart that already holds the fee   *)
(* adds it again and the pass after the reload finds the first line        *)
(* correct; and one page load starts two page-init passes (init runs       *)
(* twice) that both read "no fee line" and both add.                       *)
(***************************************************************************)
C2_SequentialConvergence ==
  (Quiescent /\ ~dirty /\ sessionAdded /\ subtotalExcludingFee > 0)
    => /\ Cardinality(FeeIndexes(cart)) = 1
       /\ cart[findFeeLineItem(cart)].quantity
            = calculateFee(subtotalExcludingFee)

C4_ZeroSubtotalRemoves ==
  [][\A p \in InFlight :
       /\ (p.kind \in PassKinds /\ PassRead(p, TRUE) /\ hasFeeLine(cart))
            => Started(Proc(p.kind, "uf_get"))
       /\ (/\ updateFee(p, TRUE) \/ checkEmptyCart(p, TRUE)
           /\ subtotalExcludingFee = 0 /\ hasFeeLine(cart))
            => /\ Started(Proc(p.kind, "rf_get"))
               /\ ~IssuesAdd /\ ~IssuesSet
       /\ (removeFee(p, TRUE) /\ hasFeeLine(cart))
            => /\ Started([Proc(p.kind, "rf_change") EXCEPT
                             !.line = findFeeLineItem(cart)])
               /\ cart[findFeeLineItem(cart)].sku = FEE
               /\ ~IssuesAdd /\ ~IssuesSet]_vars

\* a pass is at the quantity-0 change of the fee line of a cart that holds
\* nothing but the fee, with the preference set
C4_Witness ==
  \E p \in InFlight :
    /\ p.kind \in PassKinds /\ p.pc = "rf_change"
    /\ sessionAdded /\ subtotalExcludingFee = 0
    /\ p.line = findFeeLineItem(cart) /\ hasFeeLine(cart)

C6_ReconcileIdempotent ==
  Cardinality(FeeIndexes(cart)) <= 1 =>
    \A userWantsFee \in BOOLEAN :
      LET r == PassRequest(cart, userWantsFee) IN
      /\ PassRequest(ApplyRequest(cart, r), userWantsFee).op = "none"
      /\ (/\ hasFeeLine(cart) /\ subtotalExcludingFee > 0
          /\ cart[findFeeLineItem(cart)].quantity
               = calculateFee(subtotalExcludingFee))
           => r.op = "none"

\* a pass has had its add or set served and the cart holds the right fee
C6_Witness ==
  \E p \in InFlight :
    /\ p.kind \in PassKinds /\ p.pc = "refresh_in"
    /\ Cardinality(FeeIndexes(cart)) = 1 /\ subtotalExcludingFee > 0
    /\ PassRequest(cart, sessionAdded).op = "none"

(***************************************************************************)
(* C7.  On every trigger path, a pipeline whose snapshot already holds a   *)
(* fee line never issues Add; a quantity that differs from                 *)
(* calculateFee(subtotal) is applied as SetQuantity on the existing line.  *)
(* Refuted: handleCheckboxChange and ajaxAdd call addFee whatever the      *)
(* snapshot holds.                                                         *)
(***************************************************************************)
C7_NeverAddOverFee ==
  [][\A p \in InFlight :
       (/\ \/ updateFee(p, TRUE)
           \/ handleCheckboxChangeRead(p, TRUE)
           \/ ajaxAddRead(p, TRUE)
        /\ hasFeeLine(cart) /\ subtotalExcludingFee > 0)
         => LET fee     == cart[findFeeLineItem(cart)]
                desired == calculateFee(subtotalExcludingFee)
            IN  /\ ~IssuesAdd
                /\ fee.quantity # desired
                     => Started([Proc(p.kind, "set") EXCEPT
                                   !.key = fee.key, !.qty = desired])]_vars

(***************************************************************************)
(* C8.  Debounce collapse: a debounced trigger cancels the timer set by    *)
(* the trigger before it, so that after any number of triggers the only    *)
(* timer pending is the one set last; when it fires no timer is left, and  *)
(* exactly one reconciliation pass starts, at its getCart: it reads the    *)
(* cart after the last trigger.                                            *)
(***************************************************************************)
C8_DebounceCollapse ==
  [][/\ \A q \in 0..MaxQty :
          QtyEvent(q) => recalcTimer' # 0 /\ pendingTimers' = {recalcTimer'}
     /\ \A id \in pendingTimers :
          TimerFire(id)
            => /\ id = recalcTimer
               /\ pendingTimers' = {}
               /\ procs' = procs (+) One(Proc("recalc", "get"))]_vars

\* the one timer left by a trigger whose two listener copies both ran
\* scheduleRecalc has fired: a single pass is at its getCart
C8_Witness ==
  /\ pendingTimers = {} /\ recalcTimer # 0 /\ qtyListeners >= InitCalls
  /\ CopiesIn(Proc("recalc", "get"), procs) = 1

(***************************************************************************)
(* C9.  In every reachable state at most one debounce timer is pending,    *)
(* also when CheckboxHandler.init has run several times and one user event *)
(* calls scheduleRecalc once per registered copy of the listeners.         *)
(***************************************************************************)
C9_AtMostOneTimer == Cardinality(pendingTimers) <= 1

\* a timer is pending after an event that ran more copies of the listener
\* than the double initialisation registers (a fragment refresh added one)
C9_Witness == pendingTimers # {} /\ qtyListeners > InitCalls

(***************************************************************************)
(* C10.  Cancelling the removal confirmation (cancel button, click on the  *)
(* overlay, Escape while the modal is open) closes the modal and leaves    *)
(* the cart and the preference unchanged: no pipeline starts (no cart      *)
(* call) and the session key is not written.                               *)
(***************************************************************************)
C10_CancelHasNoEffect ==
  [][(CancelClick \/ OverlayClick \/ (modalActive /\ EscapeKey))
       => /\ ~modalActive'
          /\ UNCHANGED <<cart, sessionAdded, procs, cbChecked>>]_vars

\* the modal is open over a cart that holds the fee, with the preference set
C10_Witness == modalActive /\ sessionAdded /\ hasFeeLine(cart)

(***************************************************************************)
(* C11.  Once a confirmRemoval has completed, and until the shopper next   *)
(* uses a fee checkbox, the preference is unset and the cart holds no fee  *)
(* line: neither the passes in flight at the confirmation nor the ones     *)
(* that start later put the fee back.                                      *)
(***************************************************************************)
C11_ConfirmedRemovalSticks ==
  confirmed => (~sessionAdded /\ ~hasFeeLine(cart))

(***************************************************************************)
(* C12.  The step in which a store call of a cart-checkbox toggle fails    *)
(* (the getCart or the add.js of a check, the getCart or the change.js of  *)
(* an uncheck) leaves the checkbox and the preference at their pre-toggle  *)
(* values (unchecked and unset after a failed check, checked and set after *)
(* a failed uncheck) and the control enabled.                              *)
(***************************************************************************)
C12_FailedToggleReverts ==
  [][\A p \in InFlight :
       (/\ p.kind = "checkbox"
        /\ \/ handleCheckboxChangeRead(p, FALSE)
           \/ addFee(p, FALSE)
           \/ removeFee(p, FALSE)
           \/ removeFeeChange(p, FALSE))
       => (/\ sessionAdded' = (p.pc \in {"rf_get", "rf_change"})
           /\ cbChecked' = (p.pc \in {"rf_get", "rf_change"})
           /\ ~cbDisabled')]_vars

(***************************************************************************)
(* C13.  The step in which a getCart of an automated pipeline fails (the   *)
(* read of a debounced, cart:updated or page-init pass, of updateFee, of   *)
(* checkEmptyCart, or of removeFee called by one of them) issues no cart   *)
(* call that changes the cart and leaves cart and preference as they were. *)
(***************************************************************************)
AutomatedKinds == PassKinds \cup {"checkEmpty"}

C13_FailedReadIsNoOp ==
  [][\A p \in InFlight :
       (/\ p.kind \in AutomatedKinds
        /\ \/ recalcRead(p, FALSE)
           \/ cartUpdatedRead(p, FALSE)
           \/ pageInitRead(p, FALSE)
           \/ checkEmptyCart(p, FALSE)
           \/ updateFee(p, FALSE)
           \/ removeFee(p, FALSE))
       => (/\ ~IssuesMutation
           /\ cart' = cart
           /\ sessionAdded' = sessionAdded)]_vars

(***************************************************************************)
(* C14.  calculateFee(s) is the exact ceiling of s * 35 / 1000: every step *)
(* that computes the fee of the snapshot it has read (updateFee, the       *)
(* checkbox handler, ajaxAdd) asks the store for exactly that quantity.    *)
(***************************************************************************)
ExactCeiling(s) == (s * FeeRateNum + FeeRateDen - 1) \div FeeRateDen

C14_FeeIsExactCeiling ==
  [][\A p \in InFlight :
       (\/ updateFee(p, TRUE)
        \/ handleCheckboxChangeRead(p, TRUE)
        \/ ajaxAddRead(p, TRUE))
       => \A q \in BagToSet(procs') :
            (q.pc \in {"add", "set"} /\ Started(q))
              => q.qty = ExactCeiling(subtotalExcludingFee)]_vars

(***************************************************************************)
(* C15.  Interleaved passes converge: while the preference is wants-fee    *)
(* and the subtotal is positive, every add.js or change.js of a            *)
(* reconciliation pass that the store applies, the redundant second one of *)
(* two passes that read the same snapshot included, leaves the cart with   *)
(* exactly one fee line, of quantity calculateFee(subtotal).               *)
(***************************************************************************)
C15_InterleavedWritesHarmless ==
  [][\A p \in InFlight :
       (/\ p.kind \in PassKinds
        /\ addFee(p, TRUE) \/ setFeeQuantity(p, TRUE)
        /\ cart' # cart
        /\ sessionAdded /\ subtotalExcludingFee > 0)
       => (/\ Cardinality(FeeIndexes(cart')) = 1
           /\ cart'[findFeeLineItem(cart')].quantity
                = calculateFee(getSubtotalWithoutFee(cart')))]_vars

(***************************************************************************)
(* C16.  One trigger starts one reconciliation pass per registered         *)
(* listener (InitCalls of them) and each pass, the empty-cart check that   *)
(* the cart:updated listener starts with it included, issues at most one   *)
(* add.js or change.js: with triggers run one at a time, never more than   *)
(* InitCalls such calls are in flight at once.                             *)
(***************************************************************************)
MutatingPcs == {"add", "set", "rf_change"}

MutationsInFlight ==
  BagCardinality([p \in {q \in InFlight : q.pc \in MutatingPcs} |-> procs[p]])

C16_OneMutationPerPass == MutationsInFlight <= InitCalls

(***************************************************************************)
(* C17.  No step that decides on a snapshot whose subtotal excluding the   *)
(* fee is 0 (updateFee, the checkbox handler after its getCart, ajaxAdd    *)
(* after its getCart) issues add.js or a change.js that sets a quantity.   *)
(***************************************************************************)
C17_NoAddOnZeroSubtotal ==
  [][\A p \in InFlight :
       (/\ \/ updateFee(p, TRUE)
           \/ handleCheckboxChangeRead(p, TRUE)
           \/ ajaxAddRead(p, TRUE)
        /\ subtotalExcludingFee = 0)
       => (~IssuesAdd /\ ~IssuesSet)]_vars

(***************************************************************************)
(* C18.  At no time are two pipelines of immediate triggers (checkbox      *)
(* toggle, cart:updated listener, page-init pass, add-to-cart completion)  *)
(* both past their cart read and not yet through with their mutation.      *)
(***************************************************************************)
ImmediateKinds == {"checkbox", "cartUpdated", "pageInit", "ajaxAdd"}

\* the immediate pipelines that have read the cart and whose add.js or
\* change.js has not completed
Racing ==
  {p \in InFlight : /\ p.kind \in ImmediateKinds
                    /\ p.pc \in MutatingPcs \cup {"uf_get"}}

C18_NoImmediateRace == BagCardinality([p \in Racing |-> procs[p]]) <= 1

(***************************************************************************)
(* C19.  The removal dialog within one document (a page load builds a new  *)
(* dialog, Closed): it goes from Closed to Open only by a click on the     *)
(* remove control, which opens it whatever the preference is; it leaves    *)
(* Open only by cancel, overlay click, Escape or confirm; and the scroll   *)
(* of the page is blocked exactly while it is Open.                        *)
(***************************************************************************)
\* the step loads a page: the document and its dialog are built anew
PageLoad == LoadPage(page', cart', sessionAdded')

C19_DialogLifecycle ==
  /\ [](bodyOverflowHidden = modalActive)
  /\ [](~loader => ENABLED handleRemoveClick)
  /\ [][/\ (~modalActive /\ modalActive') => handleRemoveClick
        /\ handleRemoveClick => modalActive'
        /\ (modalActive /\ ~modalActive')
             => \/ CancelClick \/ OverlayClick \/ EscapeKey
                \/ confirmRemoval \/ PageLoad]_vars

\* the dialog has gone through Open and Confirmed and is Closed again
C19_Witness == confirmed /\ ~modalActive /\ ~bodyOverflowHidden

(***************************************************************************)
(* C20.  No step of an automated pipeline (a debounced, cart:updated or    *)
(* page-init pass, checkEmptyCart) taken while the preference is wants-fee *)
(* and the subtotal excluding the fee of the cart is positive issues the   *)
(* change.js that removes the fee line, or clears the preference.          *)
(***************************************************************************)
C20_NoAutomatedRemoval ==
  [][\A p \in InFlight :
       (/\ p.kind \in AutomatedKinds
        /\ sessionAdded /\ subtotalExcludingFee > 0
        /\ \E ok \in BOOLEAN :
             \/ updateFee(p, ok) \/ checkEmptyCart(p, ok)
             \/ removeFee(p, ok) \/ removeFeeChange(p, ok))
       => (~IssuesRemove /\ sessionAdded')]_vars

(***************************************************************************)
(* C21.  refreshCartUI ends in exactly one of two ways: the fragment is    *)
(* replaced and CheckboxHandler.init runs (one more copy of the listeners, *)
(* the checkbox synced and enabled, a checkEmptyCart started), or the page *)
(* is reloaded.  It reloads when the fetch of the fragment fails or the    *)
(* section is missing from it, and at once when the page has no cart       *)
(* section, so that no refresh is ever waiting on such a page.  (The       *)
(* checkbox handler reloads the page itself after a successful refresh.)   *)
(***************************************************************************)
RefreshPcs == {"refresh_in", "refresh_out"}

\* the step has replaced the fragment and run CheckboxHandler.init
Rebound ==
  /\ qtyListeners' = Min(qtyListeners + 1, MaxListeners)
  /\ Started(Proc("checkEmpty", "get"))
  /\ cbChecked' = sessionAdded' /\ ~cbDisabled'
  /\ page' = page /\ cart' = cart

C21_RefreshReplacesOrReloads ==
  /\ [](\A p \in InFlight : p.pc \in RefreshPcs => page = "cart")
  /\ [][\A p \in InFlight :
         /\ refreshCartUIDone(p, FALSE) => (PageLoad /\ ~Rebound)
         /\ (refreshCartUIDone(p, TRUE) /\ p.kind # "checkbox")
              => (Rebound /\ ~PageLoad)
         /\ (/\ page # "cart"
             /\ addFee(p, TRUE) \/ setFeeQuantity(p, TRUE)
             /\ cart' # cart)
              => PageLoad]_vars

\* one refresh has replaced the fragment and another one is waiting
C21_Witness ==
  /\ qtyListeners > InitCalls
  /\ \E p \in InFlight : p.pc \in RefreshPcs

(***************************************************************************)
(* C22.  Under any interleaving, the change.js by which a pipeline removes *)
(* the fee line leaves the ordinary line item as it was: the cart after    *)
(* the call holds the same quantity of the ordinary product.               *)
(***************************************************************************)
C22_OnlyFeeLineTouched ==
  [][\A p \in InFlight :
       removeFeeChange(p, TRUE) => ItemQty(cart') = ItemQty(cart)]_vars

(***************************************************************************)
(* C23.  While the preference is unset, the cart holds no fee line and no  *)
(* pipeline in flight carries a decision taken earlier, every step other   *)
(* than a checkbox toggle (the debounce timer and its pass, the            *)
(* cart:updated pass, the page-init pass, the completion of an add to      *)
(* cart, the empty-cart check) leaves things so: the preference stays      *)
(* unset, no fee line appears, no /cart/add.js and no /cart/change.js of   *)
(* the engine is started, and the cart changes only by the shopper's own   *)
(* product changes.                                                        *)
(***************************************************************************)
Toggle == handleCheckboxChange \/ handleProductCheckboxChange

\* p has passed a guard or holds a request computed from an earlier cart
Decided(p) ==
  \/ p.pc \in MutatingPcs \cup {"uf_get"}
  \/ p.kind \in {"checkbox", "ajaxAdd"} /\ p.pc = "get"

NoPreferenceNoFee ==
  /\ ~sessionAdded /\ ~hasFeeLine(cart)
  /\ \A p \in InFlight : ~Decided(p)

ShopperCartChange ==
  \/ \E q \in 0..MaxQty : QtyEvent(q) \/ CartUpdatedEvent(q)
  \/ \E p \in InFlight : ajaxAddProduct(p, "added")

C23_AutomatedTriggersLeaveCart ==
  [][(NoPreferenceNoFee /\ ~Toggle) =>
       /\ NoPreferenceNoFee'
       /\ ~IssuesMutation
       /\ cart' # cart => ShopperCartChange]_vars

C23_Witness ==
  /\ NoPreferenceNoFee
  /\ \E p \in InFlight : p.kind = "checkEmpty" /\ p.pc = "rf_get"
  /\ \E p \in InFlight : p.kind \in PassKinds

(***************************************************************************)
(* C24.  Quiescence: once a trigger has fired and no further event         *)
(* arrives, with every store call succeeding, the program comes to rest:   *)
(* no timer pending and no pipeline in flight.  No chain of mutation,      *)
(* refresh, reload or CheckboxHandler.init, page-init pass and empty-cart  *)
(* check goes on for ever.  (A run may instead stop where the model's      *)
(* bounds allow no further step.)                                          *)
(***************************************************************************)
\* something is in flight and the bounds of the model allow no step
AtBound == ~Quiescent /\ ~ENABLED EngineStep

C24_Quiescence == []<>Quiescent \/ <>[]AtBound

\* at rest after a mutation, a fragment refresh and CheckboxHandler.init
C24_Witness ==
  /\ Quiescent /\ qtyListeners > InitCalls
  /\ sessionAdded /\ hasFeeLine(cart)
  /\ cart[findFeeLineItem(cart)].quantity = calculateFee(subtotalExcludingFee)

=============================================================================
